---------------------------- MODULE Spec2Model ----------------------------
(***************************************************************************)
(* Model of src/nested.ts: the Question transformation library.            *)
(*                                                                         *)
(* A JavaScript string is a sequence of one-character strings, an array is *)
(* a sequence.  Objects and arrays live in a heap and are referred to by   *)
(* address, so that `{...q}` (a new object), `[...q.options]` (a new       *)
(* array) and `filter` (the same objects) are told apart.                  *)
(*                                                                         *)
(* A caller hands `input` to one library function (phase "ready" ->        *)
(* "returned"); it may then mutate the options of a returned Question      *)
(* ("mutated"), or hand the returned array to the next call (Feed).        *)
(***************************************************************************)
EXTENDS Integers, Sequences, FiniteSets, TLC

VARIABLES
    objs,       \* heap of Question objects: address -> fields (options is an array address)
    arrs,       \* heap of string arrays: address -> sequence of strings
    input,      \* the `questions` argument: sequence of object addresses
    original,   \* the value of `questions` when the call was made
    op,         \* the function called last
    args,       \* its scalar arguments
    output,     \* a returned Question[]: sequence of object addresses
    found,      \* findQuestion's result: an object address or Null
    csv,        \* toCSV's result
    phase,      \* "ready" | "returned" | "mutated"
    calls       \* number of calls whose result was fed to the next call

vars == <<objs, arrs, input, original, op, args, output, found, csv, phase, calls>>

-----------------------------------------------------------------------------
(* Bounds *)

\* longest `questions` array drawn as the first input
MaxLen == 2

\* how many times a returned array is handed to a further call
MaxCalls == 1

-----------------------------------------------------------------------------
(* Strings *)

MC == "multiple_choice_question"
SA == "short_answer_question"
QuestionTypes == {MC, SA}

\* JavaScript null; no object lives at this address
Null == 0

EmptyStr == <<>>
CopyOfPrefix == <<"C", "o", "p", "y", " ", "o", "f", " ">>
Comma == <<",">>
Newline == <<"\n">>

IsSpace(c) == c \in {" ", "\t", "\n"}

RECURSIVE TrimStart(_)
TrimStart(s) ==
    IF s # <<>> /\ IsSpace(Head(s)) THEN TrimStart(Tail(s)) ELSE s

RECURSIVE TrimEnd(_)
TrimEnd(s) ==
    IF s # <<>> /\ IsSpace(s[Len(s)]) THEN TrimEnd(SubSeq(s, 1, Len(s) - 1)) ELSE s

\* String.prototype.trim
Trim(s) == TrimEnd(TrimStart(s))

Digit(d) == <<"0", "1", "2", "3", "4", "5", "6", "7", "8", "9">>[d + 1]

\* String(n) for a non-negative integer n
RECURSIVE NumToString(_)
NumToString(n) ==
    IF n < 10 THEN <<Digit(n)>> ELSE NumToString(n \div 10) \o <<Digit(n % 10)>>

\* String(b) for a boolean b
BoolToString(b) ==
    IF b THEN <<"t", "r", "u", "e">> ELSE <<"f", "a", "l", "s", "e">>

\* Array.prototype.join on an array of strings
RECURSIVE Join(_, _)
Join(strs, sep) ==
    IF Len(strs) = 0 THEN EmptyStr
    ELSE IF Len(strs) = 1 THEN strs[1]
    ELSE strs[1] \o sep \o Join(Tail(strs), sep)

-----------------------------------------------------------------------------
(* Heap *)

Heap(o, a) == [objs |-> o, arrs |-> a]

\* the Question at address a, with its options array read out of the heap
Deref(H, a) == [H.objs[a] EXCEPT !.options = H.arrs[H.objs[a].options]]

DerefAll(H, qs) == [k \in 1..Len(qs) |-> Deref(H, qs[k])]

\* { ...q, options: [...q.options] }: a new array, then a new object
\* holding it; the new object's address is Len(objs) of the result
SpreadCopy(H, a) ==
    LET arr == Len(H.arrs) + 1
    IN  Heap(Append(H.objs, [H.objs[a] EXCEPT !.options = arr]),
             Append(H.arrs, H.arrs[H.objs[a].options]))

\* the heap holding exactly the Questions `values`, one object and one array each
Load(values) ==
    Heap([k \in 1..Len(values) |-> [values[k] EXCEPT !.options = k]],
         [k \in 1..Len(values) |-> values[k].options])

\* the heap after allocating a Question with fields `value` (options a sequence)
NewQuestion(H, value) ==
    LET arr == Len(H.arrs) + 1
    IN  Heap(Append(H.objs, [value EXCEPT !.options = arr]),
             Append(H.arrs, value.options))

Min(a, b) == IF a < b THEN a ELSE b
Max(a, b) == IF a > b THEN a ELSE b

\* Splice, with a start at or beyond the end treated as out of range when an
\* element is to be replaced: nothing happens
SpliceBeyondEndIgnored(arr, start, deleteCount, item) ==
    LET len == Len(arr)
        actualStart == IF start < 0 THEN Max(len + start, 0) ELSE Min(start, len)
        actualDeleteCount == Min(Max(deleteCount, 0), len - actualStart)
    IN  IF start >= len /\ deleteCount > 0 THEN arr
        ELSE SubSeq(arr, 1, actualStart) \o <<item>>
                 \o SubSeq(arr, actualStart + actualDeleteCount + 1, len)

\* Array.prototype.splice(start, deleteCount, item) on the contents of an array:
\* a negative start counts from the end, a start beyond the end is the end,
\* and no more elements are deleted than there are from start on
Splice(arr, start, deleteCount, item) ==
    LET len == Len(arr)
        actualStart == IF start < 0 THEN Max(len + start, 0) ELSE Min(start, len)
        actualDeleteCount == Min(Max(deleteCount, 0), len - actualStart)
    IN  SubSeq(arr, 1, actualStart) \o <<item>>
            \o SubSeq(arr, actualStart + actualDeleteCount + 1, len)

\* arr.splice(...) in place, on the array at address `arr`
SpliceAt(H, arr, start, deleteCount, item) ==
    Heap(H.objs, [H.arrs EXCEPT ![arr] = Splice(@, start, deleteCount, item)])

-----------------------------------------------------------------------------
(* The library.  Each function takes the heap and its arguments and returns *)
(* [H |-> the heap afterwards, out |-> what it returns].                    *)

Result(H, out) == [H |-> H, out |-> out]

\* questions.map(q => ({ ...q, options: [...q.options] }))
DeepCopy(H, qs) ==
    LET step[i \in 0..Len(qs)] ==
            IF i = 0 THEN Result(H, <<>>)
            ELSE LET p == step[i - 1]
                     c == SpreadCopy(p.H, qs[i])
                 IN  Result(c, Append(p.out, Len(c.objs)))
    IN  step[Len(qs)]

getPublishedQuestions(H, qs) ==
    DeepCopy(H, SelectSeq(qs, LAMBDA a : H.objs[a].published))

\* the filter predicate of getNonEmptyQuestions
IsNonEmpty(H, a) ==
    \/ Trim(H.objs[a].body) # EmptyStr
    \/ Len(H.arrs[H.objs[a].options]) > 0
    \/ Trim(H.objs[a].expected) # EmptyStr

getNonEmptyQuestions(H, qs) ==
    Result(H, SelectSeq(qs, LAMBDA a : IsNonEmpty(H, a)))

\* Find, keeping the last match instead of the first
RECURSIVE FindLast(_, _, _, _)
FindLast(H, qs, id, i) ==
    IF i > Len(qs) THEN Null
    ELSE LET later == FindLast(H, qs, id, i + 1)
         IN  IF later # Null THEN later
             ELSE IF H.objs[qs[i]].id = id THEN qs[i] ELSE Null

\* questions.find(q => q.id === id), scanning from index i: the address of
\* the first match, or Null for undefined
RECURSIVE Find(_, _, _, _)
Find(H, qs, id, i) ==
    IF i > Len(qs) THEN Null
    ELSE IF H.objs[qs[i]].id = id THEN qs[i]
    ELSE Find(H, qs, id, i + 1)

findQuestion(H, qs, id) ==
    LET toFind == Find(H, qs, id, 1)
    IN  IF toFind = Null THEN Result(H, Null)
        ELSE LET c == SpreadCopy(H, toFind) IN Result(c, Len(c.objs))

\* removeQuestion, dropping only the first entry with the id
removeQuestionFirstOnly(H, qs, id) ==
    LET first == Find(H, qs, id, 1)
    IN  DeepCopy(H, SelectSeq(qs, LAMBDA a : a # first))

removeQuestion(H, qs, id) ==
    DeepCopy(H, SelectSeq(qs, LAMBDA a : H.objs[a].id # id))

HeaderFields ==
    << <<"i", "d">>, <<"n", "a", "m", "e">>,
       <<"o", "p", "t", "i", "o", "n", "s">>,
       <<"p", "o", "i", "n", "t", "s">>,
       <<"p", "u", "b", "l", "i", "s", "h", "e", "d">> >>

\* the string[] that toCSV's map callback returns for the Question at a
CsvRow(H, a) ==
    << NumToString(H.objs[a].id),
       H.objs[a].name,
       NumToString(Len(H.arrs[H.objs[a].options])),
       NumToString(H.objs[a].points),
       BoolToString(H.objs[a].published) >>

\* toCSV, ending every record with a newline
toCSVNewlineEnded(H, qs) ==
    LET r1 == Join(HeaderFields, Comma) \o Newline
        rows == [k \in 1..Len(qs) |-> Join(CsvRow(H, qs[k]), Comma) \o Newline]
    IN  r1 \o Join(rows, EmptyStr)

\* join("\n") of an array of arrays turns each inner array into a string
\* with Array.prototype.toString, which is join(",")
toCSV(H, qs) ==
    LET r1 == Join(HeaderFields, Comma) \o Newline
        rows == [k \in 1..Len(qs) |-> Join(CsvRow(H, qs[k]), Comma)]
    IN  r1 \o Join(rows, Newline)

\* the callback of publishAll
PublishEntry(H, a) ==
    LET c == SpreadCopy(H, a)
    IN  Heap([c.objs EXCEPT ![Len(c.objs)].published = TRUE], c.arrs)

publishAll(H, qs) ==
    LET step[i \in 0..Len(qs)] ==
            IF i = 0 THEN Result(H, <<>>)
            ELSE LET p == step[i - 1]
                     c == PublishEntry(p.H, qs[i])
                 IN  Result(c, Append(p.out, Len(c.objs)))
    IN  step[Len(qs)]

makeBlankQuestion(id, name, type) ==
    [id |-> id, name |-> name, type |-> type, body |-> EmptyStr,
     expected |-> EmptyStr, options |-> <<>>, points |-> 0, published |-> FALSE]

addNewQuestion(H, qs, id, name, type) ==
    LET deepCopy == DeepCopy(H, qs)
        b == NewQuestion(deepCopy.H, makeBlankQuestion(id, name, type))
    IN  Result(b, Append(deepCopy.out, Len(b.objs)))

\* RenameEntry, without the test of the id
RenameEntryEvery(H, a, targetId, newName) ==
    LET c == SpreadCopy(H, a)
    IN  Heap([c.objs EXCEPT ![Len(c.objs)].name = newName], c.arrs)

\* the callback of renameQuestionById
RenameEntry(H, a, targetId, newName) ==
    LET c == SpreadCopy(H, a)
    IN  IF targetId = H.objs[a].id
        THEN Heap([c.objs EXCEPT ![Len(c.objs)].name = newName], c.arrs)
        ELSE c

renameQuestionById(H, qs, targetId, newName) ==
    LET step[i \in 0..Len(qs)] ==
            IF i = 0 THEN Result(H, <<>>)
            ELSE LET p == step[i - 1]
                     c == RenameEntry(p.H, qs[i], targetId, newName)
                 IN  Result(c, Append(p.out, Len(c.objs)))
    IN  step[Len(qs)]

\* ChangeTypeEntry, without emptying the options
ChangeTypeEntryKeepsOptions(H, a, targetId, newQuestionType) ==
    LET c == SpreadCopy(H, a)
        ret == Len(c.objs)
    IN  IF targetId = H.objs[a].id
        THEN Heap([c.objs EXCEPT ![ret].type = newQuestionType], c.arrs)
        ELSE c

\* the callback of changeQuestionTypeById; `ret.options = []` is a new array
ChangeTypeEntry(H, a, targetId, newQuestionType) ==
    LET c == SpreadCopy(H, a)
        ret == Len(c.objs)
        typed == Heap([c.objs EXCEPT ![ret].type = newQuestionType], c.arrs)
    IN  IF targetId = H.objs[a].id
        THEN IF typed.objs[ret].type = SA
             THEN Heap([typed.objs EXCEPT ![ret].options = Len(typed.arrs) + 1],
                       Append(typed.arrs, <<>>))
             ELSE typed
        ELSE c

changeQuestionTypeById(H, qs, targetId, newQuestionType) ==
    LET step[i \in 0..Len(qs)] ==
            IF i = 0 THEN Result(H, <<>>)
            ELSE LET p == step[i - 1]
                     c == ChangeTypeEntry(p.H, qs[i], targetId, newQuestionType)
                 IN  Result(c, Append(p.out, Len(c.objs)))
    IN  step[Len(qs)]

\* EditOptionEntry, inserting at the index instead of replacing
EditOptionEntryInserts(H, a, targetId, targetOptionIndex, newOption) ==
    LET c == SpreadCopy(H, a)
        ret == Len(c.objs)
        opts == c.objs[ret].options
    IN  IF targetId = H.objs[a].id
        THEN IF targetOptionIndex = -1
             THEN SpliceAt(c, opts, Len(c.arrs[opts]), 0, newOption)
             ELSE SpliceAt(c, opts, targetOptionIndex, 0, newOption)
        ELSE c

\* the callback of editOption
EditOptionEntry(H, a, targetId, targetOptionIndex, newOption) ==
    LET c == SpreadCopy(H, a)
        ret == Len(c.objs)
        opts == c.objs[ret].options
    IN  IF targetId = H.objs[a].id
        THEN IF targetOptionIndex = -1
             THEN SpliceAt(c, opts, Len(c.arrs[opts]), 0, newOption)
             ELSE SpliceAt(c, opts, targetOptionIndex, 1, newOption)
        ELSE c

editOption(H, qs, targetId, targetOptionIndex, newOption) ==
    LET step[i \in 0..Len(qs)] ==
            IF i = 0 THEN Result(H, <<>>)
            ELSE LET p == step[i - 1]
                     c == EditOptionEntry(p.H, qs[i], targetId, targetOptionIndex, newOption)
                 IN  Result(c, Append(p.out, Len(c.objs)))
    IN  step[Len(qs)]

\* DuplicateEntry, with the duplicate put before the original
DuplicateEntryFirst(H, a, targetId, newId) ==
    LET c1 == SpreadCopy(H, a)
        c2 == SpreadCopy(c1, a)
        dup == Len(c2.objs)
    IN  IF H.objs[a].id = targetId
        THEN Result(Heap([c2.objs EXCEPT ![dup].id = newId,
                                         ![dup].name = CopyOfPrefix \o H.objs[a].name],
                         c2.arrs),
                    <<dup, Len(c1.objs)>>)
        ELSE Result(c1, <<Len(c1.objs)>>)

\* the flatMap callback of duplicateQuestionInArray: the heap afterwards and
\* the one or two objects it returns
DuplicateEntry(H, a, targetId, newId) ==
    LET c1 == SpreadCopy(H, a)
        c2 == SpreadCopy(c1, a)
        dup == Len(c2.objs)
    IN  IF H.objs[a].id = targetId
        THEN Result(Heap([c2.objs EXCEPT ![dup].id = newId,
                                         ![dup].name = CopyOfPrefix \o H.objs[a].name],
                         c2.arrs),
                    <<Len(c1.objs), dup>>)
        ELSE Result(c1, <<Len(c1.objs)>>)

duplicateQuestionInArray(H, qs, targetId, newId) ==
    LET step[i \in 0..Len(qs)] ==
            IF i = 0 THEN Result(H, <<>>)
            ELSE LET p == step[i - 1]
                     c == DuplicateEntry(p.H, qs[i], targetId, newId)
                 IN  Result(c.H, p.out \o c.out)
    IN  step[Len(qs)]

-----------------------------------------------------------------------------
(* Inputs *)

Ids == {1, 2}
TargetIds == {1, 2, 3}
NewIds == {9}
NewNames == {<<"N">>}
NewOptions == {<<"X">>}
OptionIndexes == {-2, -1, 0, 1, 2, 3}

\* what a Question holds besides id and published; a short answer question
\* has no options
Contents ==
    { [name |-> <<"Q">>, type |-> MC, body |-> <<"b">>, expected |-> EmptyStr,
       options |-> << <<"a">>, <<"b">> >>, points |-> 10],
      [name |-> <<"R">>, type |-> SA, body |-> <<" ">>, expected |-> EmptyStr,
       options |-> <<>>, points |-> 0],
      [name |-> <<"Q">>, type |-> MC, body |-> EmptyStr, expected |-> EmptyStr,
       options |-> << <<"a">> >>, points |-> 1],
      [name |-> <<"R">>, type |-> SA, body |-> EmptyStr, expected |-> <<" ", "e">>,
       options |-> <<>>, points |-> 12] }

Questions ==
    { [id |-> i, name |-> c.name, type |-> c.type, body |-> c.body,
       expected |-> c.expected, options |-> c.options, points |-> c.points,
       published |-> p] : i \in Ids, c \in Contents, p \in BOOLEAN }

QuestionArrays == UNION { [1..n -> Questions] : n \in 0..MaxLen }

NoArgs ==
    [id |-> 0, name |-> EmptyStr, type |-> "", index |-> 0, option |-> EmptyStr,
     newId |-> 0]

ArrayOps ==
    {"getPublishedQuestions", "getNonEmptyQuestions", "removeQuestion", "publishAll",
     "addNewQuestion", "renameQuestionById", "changeQuestionTypeById", "editOption",
     "duplicateQuestionInArray"}

-----------------------------------------------------------------------------
(* The caller *)

Init ==
    \E values \in QuestionArrays :
        /\ objs = Load(values).objs
        /\ arrs = Load(values).arrs
        /\ input = [k \in 1..Len(values) |-> k]
        /\ original = values
        /\ op = "none"
        /\ args = NoArgs
        /\ output = <<>>
        /\ found = Null
        /\ csv = EmptyStr
        /\ phase = "ready"
        /\ calls = 0

Now == Heap(objs, arrs)

\* a function returning Question[] returns r
ReturnArray(r, name, a) ==
    /\ objs' = r.H.objs
    /\ arrs' = r.H.arrs
    /\ output' = r.out
    /\ found' = Null
    /\ csv' = EmptyStr
    /\ op' = name
    /\ args' = a
    /\ phase' = "returned"
    /\ UNCHANGED <<input, original, calls>>

CallGetPublishedQuestions ==
    /\ phase = "ready"
    /\ ReturnArray(getPublishedQuestions(Now, input), "getPublishedQuestions", NoArgs)

CallGetNonEmptyQuestions ==
    /\ phase = "ready"
    /\ ReturnArray(getNonEmptyQuestions(Now, input), "getNonEmptyQuestions", NoArgs)

CallFindQuestion ==
    /\ phase = "ready"
    /\ \E id \in TargetIds :
        LET r == findQuestion(Now, input, id)
        IN  /\ objs' = r.H.objs
            /\ arrs' = r.H.arrs
            /\ found' = r.out
            /\ output' = <<>>
            /\ csv' = EmptyStr
            /\ op' = "findQuestion"
            /\ args' = [NoArgs EXCEPT !.id = id]
            /\ phase' = "returned"
            /\ UNCHANGED <<input, original, calls>>

CallRemoveQuestion ==
    /\ phase = "ready"
    /\ \E id \in TargetIds :
        ReturnArray(removeQuestion(Now, input, id), "removeQuestion",
                    [NoArgs EXCEPT !.id = id])

CallToCSV ==
    /\ phase = "ready"
    /\ csv' = toCSV(Now, input)
    /\ op' = "toCSV"
    /\ args' = NoArgs
    /\ output' = <<>>
    /\ found' = Null
    /\ phase' = "returned"
    /\ UNCHANGED <<objs, arrs, input, original, calls>>

CallPublishAll ==
    /\ phase = "ready"
    /\ ReturnArray(publishAll(Now, input), "publishAll", NoArgs)

CallAddNewQuestion ==
    /\ phase = "ready"
    /\ \E id \in Ids, name \in NewNames, type \in QuestionTypes :
        ReturnArray(addNewQuestion(Now, input, id, name, type), "addNewQuestion",
                    [NoArgs EXCEPT !.id = id, !.name = name, !.type = type])

CallRenameQuestionById ==
    /\ phase = "ready"
    /\ \E targetId \in TargetIds, newName \in NewNames :
        ReturnArray(renameQuestionById(Now, input, targetId, newName),
                    "renameQuestionById",
                    [NoArgs EXCEPT !.id = targetId, !.name = newName])

CallChangeQuestionTypeById ==
    /\ phase = "ready"
    /\ \E targetId \in TargetIds, newQuestionType \in QuestionTypes :
        ReturnArray(changeQuestionTypeById(Now, input, targetId, newQuestionType),
                    "changeQuestionTypeById",
                    [NoArgs EXCEPT !.id = targetId, !.type = newQuestionType])

CallEditOption ==
    /\ phase = "ready"
    /\ \E targetId \in TargetIds, targetOptionIndex \in OptionIndexes,
          newOption \in NewOptions :
        ReturnArray(editOption(Now, input, targetId, targetOptionIndex, newOption),
                    "editOption",
                    [NoArgs EXCEPT !.id = targetId, !.index = targetOptionIndex,
                                   !.option = newOption])

CallDuplicateQuestionInArray ==
    /\ phase = "ready"
    /\ \E targetId \in TargetIds, newId \in NewIds :
        ReturnArray(duplicateQuestionInArray(Now, input, targetId, newId),
                    "duplicateQuestionInArray",
                    [NoArgs EXCEPT !.id = targetId, !.newId = newId])

\* the Question objects the last call returned
Returned ==
    {output[k] : k \in 1..Len(output)} \cup (IF found = Null THEN {} ELSE {found})

\* the caller does r.options.push("M") on a returned Question r
Mutate ==
    /\ phase = "returned"
    /\ \E r \in Returned :
        arrs' = [arrs EXCEPT ![objs[r].options] = Append(@, <<"M">>)]
    /\ phase' = "mutated"
    /\ UNCHANGED <<objs, input, original, op, args, output, found, csv, calls>>

\* the caller passes the returned array as `questions` of a further call;
\* nothing else stays reachable, and the addresses are renumbered
Feed ==
    /\ phase = "returned"
    /\ op \in ArrayOps
    /\ calls < MaxCalls
    /\ LET values == DerefAll(Now, output)
       IN  /\ objs' = Load(values).objs
           /\ arrs' = Load(values).arrs
           /\ input' = [k \in 1..Len(values) |-> k]
           /\ original' = values
    /\ op' = "none"
    /\ args' = NoArgs
    /\ output' = <<>>
    /\ found' = Null
    /\ csv' = EmptyStr
    /\ phase' = "ready"
    /\ calls' = calls + 1

Call ==
    \/ CallGetPublishedQuestions
    \/ CallGetNonEmptyQuestions
    \/ CallFindQuestion
    \/ CallRemoveQuestion
    \/ CallToCSV
    \/ CallPublishAll
    \/ CallAddNewQuestion
    \/ CallRenameQuestionById
    \/ CallChangeQuestionTypeById
    \/ CallEditOption
    \/ CallDuplicateQuestionInArray

Next == Call \/ Mutate

Spec == Init /\ [][Next]_vars

NextChain == Call \/ Feed

SpecChain == Init /\ [][NextChain]_vars

-----------------------------------------------------------------------------
(* What the properties read *)

\* the returned array, by value
Out == DerefAll(Now, output)

\* the argument array as it is in the heap now, by value
In == DerefAll(Now, input)

JustReturned(name) == phase = "returned" /\ op = name

\* the positions of `original` whose id is id
Matching(id) == {k \in 1..Len(original) : original[k].id = id}

\* how many of the positions in S come before k
Before(S, k) == Cardinality({j \in S : j < k})

\* q and r agree on every field but type and options
SameButTypeAndOptions(q, r) == [q EXCEPT !.type = r.type, !.options = r.options] = r

\* q and r agree on every field but options
SameButOptions(q, r) == [q EXCEPT !.options = r.options] = r

\* the pieces of s between occurrences of the character c
RECURSIVE SplitOn(_, _)
SplitOn(s, c) ==
    IF \A i \in 1..Len(s) : s[i] # c THEN <<s>>
    ELSE LET i == CHOOSE j \in 1..Len(s) : s[j] = c /\ \A h \in 1..(j - 1) : s[h] # c
         IN  <<SubSeq(s, 1, i - 1)>> \o SplitOn(SubSeq(s, i + 1, Len(s)), c)

DigitValue(ch) == CHOOSE d \in 0..9 : Digit(d) = ch

\* s is the decimal numeral of n, without leading zeros
IsNumeral(s, n) ==
    /\ Len(s) >= 1
    /\ \A i \in 1..Len(s) : \E d \in 0..9 : Digit(d) = s[i]
    /\ Len(s) = 1 \/ s[1] # "0"
    /\ LET value[i \in 0..Len(s)] ==
               IF i = 0 THEN 0 ELSE 10 * value[i - 1] + DigitValue(s[i])
       IN  value[Len(s)] = n

HeaderLine ==
    <<"i", "d", ",", "n", "a", "m", "e", ",", "o", "p", "t", "i", "o", "n", "s", ",",
      "p", "o", "i", "n", "t", "s", ",", "p", "u", "b", "l", "i", "s", "h", "e", "d">>

\* line is the record of Question q: id,name,<number of options>,points,published
IsRecordOf(line, q) ==
    LET f == SplitOn(line, ",")
    IN  /\ Len(f) = 5
        /\ IsNumeral(f[1], q.id)
        /\ f[2] = q.name
        /\ IsNumeral(f[3], Len(q.options))
        /\ IsNumeral(f[4], q.points)
        /\ f[5] = IF q.published THEN <<"t", "r", "u", "e">>
                                 ELSE <<"f", "a", "l", "s", "e">>

-----------------------------------------------------------------------------
(* Properties *)

\* C1: whichever function returned the Questions, pushing onto the options
\* of a returned Question leaves the options of every Question of the
\* argument array as they were when the call was made.
C1_NonAliasing ==
    phase = "mutated" =>
        \A k \in 1..Len(input) : In[k].options = original[k].options

\* C2: along any chain of calls, each fed the array the previous one
\* returned, every short answer question of the argument array and of the
\* returned array has no options.
C2_ShortAnswerHasNoOptions ==
    /\ \A k \in 1..Len(input) : In[k].type = SA => In[k].options = <<>>
    /\ (phase = "returned" /\ op \in ArrayOps) =>
           \A k \in 1..Len(output) : Out[k].type = SA => Out[k].options = <<>>

\* C3: toCSV returns the header line, a newline, and one record line per
\* Question in input order, the lines separated by newlines with none after
\* the last; for the empty array it returns the header line and its newline.
C3_ToCSVFormat ==
    JustReturned("toCSV") =>
        IF Len(original) = 0 THEN csv = HeaderLine \o <<"\n">>
        ELSE LET lines == SplitOn(csv, "\n")
             IN  /\ Len(lines) = Len(original) + 1
                 /\ lines[1] = HeaderLine
                 /\ \A k \in 1..Len(original) : IsRecordOf(lines[k + 1], original[k])
                 /\ csv[Len(csv)] # "\n"

C3_Witness ==
    /\ JustReturned("toCSV")
    /\ Len(original) = 2
    /\ Len(original[1].options) = 2
    /\ original[1].points = 10
    /\ original[1].published /\ ~original[2].published

\* C4: in what changeQuestionTypeById returns, every entry with the target
\* id has the new type, no options unless the new type is multiple choice
\* (then the options it had), and its other fields as they were.
C4_ChangeType ==
    JustReturned("changeQuestionTypeById") =>
        /\ Len(output) = Len(original)
        /\ \A k \in Matching(args.id) :
            /\ Out[k].type = args.type
            /\ Out[k].options = IF args.type # MC THEN <<>> ELSE original[k].options
            /\ SameButTypeAndOptions(original[k], Out[k])

C4_Witness ==
    /\ JustReturned("changeQuestionTypeById")
    /\ args.type = SA
    /\ \E k \in Matching(args.id) :
        /\ original[k].type = MC
        /\ Len(original[k].options) = 2
        /\ Out[k].options = <<>>

\* C5: in what editOption returns, every entry with the target id has, for
\* index -1, its options with the new option appended, and for an index
\* within its options, the new option at that index and every other option
\* where it was; its other fields are as they were.
C5_EditOption ==
    JustReturned("editOption") =>
        /\ Len(output) = Len(original)
        /\ \A k \in Matching(args.id) :
            LET old == original[k].options
                new == Out[k].options
            IN  /\ SameButOptions(original[k], Out[k])
                /\ args.index = -1 => new = Append(old, args.option)
                /\ (0 <= args.index /\ args.index < Len(old)) =>
                       /\ Len(new) = Len(old)
                       /\ new[args.index + 1] = args.option
                       /\ \A j \in 1..Len(old) :
                              j # args.index + 1 => new[j] = old[j]

C5_Witness ==
    /\ JustReturned("editOption")
    /\ args.index = 1
    /\ \E k \in Matching(args.id) :
        /\ Len(original[k].options) = 2
        /\ Out[k].options = <<original[k].options[1], args.option>>

\* C6: duplicateQuestionInArray returns the entries of the argument in
\* order, each entry with the target id followed by a duplicate that
\* differs from it in id (the new id) and name ("Copy of " and the name).
C6_Duplicate ==
    JustReturned("duplicateQuestionInArray") =>
        LET m == Matching(args.id)
        IN  /\ Len(output) = Len(original) + Cardinality(m)
            /\ \A k \in 1..Len(original) :
                LET at == k + Before(m, k)
                IN  /\ Out[at] = original[k]
                    /\ k \in m =>
                           Out[at + 1] =
                               [original[k] EXCEPT
                                    !.id = args.newId,
                                    !.name = <<"C", "o", "p", "y", " ", "o", "f", " ">> \o @]
            /\ m = {} => Out = original

C6_Witness ==
    /\ JustReturned("duplicateQuestionInArray")
    /\ Len(original) = 2
    /\ original[1].id = args.id
    /\ original[2].id # args.id
    /\ Len(output) = 3
    /\ Out[2].id = 9
    /\ Out[3] = original[2]

\* C7: what renameQuestionById, changeQuestionTypeById and editOption
\* return is as long as the argument, and every entry whose id is not the
\* target id equals the entry of the argument at its position.
C7_Frame ==
    (phase = "returned"
        /\ op \in {"renameQuestionById", "changeQuestionTypeById", "editOption"}) =>
        /\ Len(output) = Len(original)
        /\ \A k \in 1..Len(original) :
               original[k].id # args.id => Out[k] = original[k]
        /\ Matching(args.id) = {} => Out = original

C7_Witness ==
    /\ JustReturned("renameQuestionById")
    /\ Len(original) = 2
    /\ original[1].id = args.id
    /\ original[2].id # args.id
    /\ Out[1].name # original[1].name
    /\ Out[2] = original[2]

\* C8: removeQuestion returns the entries of the argument whose id is not
\* the given id, in order and as they were; every entry with that id is gone.
C8_Remove ==
    JustReturned("removeQuestion") =>
        LET m == Matching(args.id)
        IN  /\ Len(output) = Len(original) - Cardinality(m)
            /\ \A k \in 1..Len(output) : Out[k].id # args.id
            /\ \A k \in (1..Len(original)) \ m : Out[k - Before(m, k)] = original[k]

C8_Witness ==
    /\ JustReturned("removeQuestion")
    /\ Len(original) = 2
    /\ Matching(args.id) = {1, 2}
    /\ output = <<>>

\* C9: findQuestion returns a copy of the first entry with the given id,
\* and null exactly when no entry has it.
C9_Find ==
    JustReturned("findQuestion") =>
        LET m == Matching(args.id)
        IN  /\ found = Null <=> m = {}
            /\ m # {} =>
                   /\ found \in 1..Len(objs)
                   /\ \A k \in 1..Len(input) : found # input[k]
                   /\ Deref(Now, found) = original[CHOOSE k \in m : \A j \in m : k <= j]

C9_Witness ==
    /\ JustReturned("findQuestion")
    /\ Matching(args.id) = {1, 2}
    /\ original[1] # original[2]
    /\ found # Null
    /\ Deref(Now, found) = original[1]

\* C10: editOption with an index at or beyond the end of the target's
\* options appends the new option and moves no option, as index -1 does.
C10_EditOptionBeyondEnd ==
    JustReturned("editOption") =>
        /\ \A k \in Matching(args.id) :
               args.index >= Len(original[k].options) =>
                   Out[k].options = Append(original[k].options, args.option)
        /\ (\A k \in Matching(args.id) : args.index >= Len(original[k].options)) =>
               LET h == Load(original)
                   r == editOption(h, [k \in 1..Len(original) |-> k], args.id, -1,
                                   args.option)
               IN  Out = DerefAll(r.H, r.out)

C10_Witness ==
    /\ JustReturned("editOption")
    /\ args.index = 3
    /\ \E k \in Matching(args.id) :
        /\ Len(original[k].options) = 2
        /\ Len(Out[k].options) = 3
        /\ Out[k].options[3] = args.option

=============================================================================
